---- MODULE Spec2Model ----
(***************************************************************************)
(* Kernel Universe: the simulation engine of kernel_universe/simulation.py *)
(* (Core, KernelUniverseSimulation) under the configuration of             *)
(* kernel_universe/config.py, and the server of kernel_universe/server.py  *)
(* around it.                                                              *)
(*                                                                         *)
(* Numbers.  The configuration's fractions are multiples of 1/20, so they  *)
(* are held as integers in units of 1/Frac.  Temperatures are held in the  *)
(* same unit (a draw of rng.random() is one of Frac levels in [0,1)).      *)
(* Catalyst amounts are floating-point in the source; here they are        *)
(* fixed-point integers in units of 1/CatalystUnit, and every arithmetic   *)
(* result that is not a whole number of units is rounded to the nearest    *)
(* unit, as a float operation rounds to the nearest representable value.   *)
(***************************************************************************)
EXTENDS Integers, Sequences, FiniteSets, TLC

\* ------------------------------------------------------------------ bounds
\* Ticks explored after a construction or a reset.
MaxTick == 6
\* Seeds explored: 0 .. MaxSeed.
MaxSeed == 127
\* Largest core collection a step may leave behind.
MaxCores == 7
\* Resets explored in one behaviour.
MaxResets == 1
\* Harness: largest exposure count and bloom count a driven core may reach.
MaxExposure == 4
MaxCoreBlooms == 2
\* Seeds the end-to-end example is run from: 0 .. MaxExampleSeed.
MaxExampleSeed == 1023
\* Seeds explored with set_parameter calls: 0 .. MaxParamSeed.
MaxParamSeed == 3
\* set_parameter calls explored in one behaviour.
MaxSets == 2
\* Server: ticks explored.
MaxServerTick == 2

\* ------------------------------------------------------------ number units
Frac == 4 * 5
CatalystUnit == 1000 * Frac

\* n / d rounded to the nearest integer (n >= 0, d > 0)
RoundDiv(n, d) == (2 * n + d) \div (2 * d)

\* -------------------------------------------------- configuration (config.py)
\* The configuration is scaled down to a grid TLC can enumerate; the
\* fractions keep the values of config.py.
GRID_SIZE == 2
TAU_TEMP == 2
TAU_REFRACT == 2
SPAWN_S == 1
INITIAL_CORES == 2
\* 0.6, 0.05, 0.40, 0.55 in units of 1/Frac
EMIT_FRACTION == 12
ADVECT_ALPHA == 1
T_MIN == 8
T_MAX == 11
\* the kernel's weights in units of 1/Frac: 0.05, 0.10, 0.40
KERNEL_3x3 == << <<1, 2, 1>>, <<2, 8, 2>>, <<1, 2, 1>> >>
\* C_THRESH: 0.2 as in config.py, and 0.05 (set through set_parameter or by
\* editing config.py), in units of 1/Frac; 0.2 is out of reach of the initial
\* catalyst, which is below 0.2 per cell.
C_THRESH_Default == 4
C_THRESH_Values == {C_THRESH_Default, 1}

\* config.RNG_SEED, the seed of a simulation constructed without one
RNG_SEED == 42

\* The names config.py assigns as configuration values
ConfigParameters ==
    {"GRID_SIZE", "DAY_TICKS", "C_THRESH", "EMIT_FRACTION", "KERNEL_3x3",
     "ADVECT_ALPHA", "T_MIN", "T_MAX", "TAU_TEMP", "TAU_CATALYST",
     "TAU_REFRACT", "SPAWN_S", "RNG_SEED", "INITIAL_CORES", "REDIS_URL",
     "REDIS_STATE_KEY", "API_HOST", "API_PORT", "STREAM_FPS"}

\* The attributes of the module config: the configuration values and np, the
\* name config.py binds with "import numpy as np"
DefaultConfig(cthresh) ==
    [np |-> "numpy", GRID_SIZE |-> GRID_SIZE, DAY_TICKS |-> 100,
     C_THRESH |-> cthresh,
     EMIT_FRACTION |-> EMIT_FRACTION, KERNEL_3x3 |-> KERNEL_3x3,
     ADVECT_ALPHA |-> ADVECT_ALPHA, T_MIN |-> T_MIN, T_MAX |-> T_MAX,
     TAU_TEMP |-> TAU_TEMP, TAU_CATALYST |-> 12, TAU_REFRACT |-> TAU_REFRACT,
     SPAWN_S |-> SPAWN_S, RNG_SEED |-> RNG_SEED,
     INITIAL_CORES |-> INITIAL_CORES,
     REDIS_URL |-> "redis://localhost:6379",
     REDIS_STATE_KEY |-> "kernel_universe:state",
     API_HOST |-> "0.0.0.0", API_PORT |-> 8000, STREAM_FPS |-> 5]

\* --------------------------------------- the seeded stream (np.random.RandomState)
\* The stream's state is one integer; every draw advances it.  The generator
\* is a full-period linear congruential one standing in for numpy's.
RngModulus == 4096
RngSeed(seed) == seed % RngModulus
RngAdvance(s) == (1229 * s + 1) % RngModulus

\* rng.random(): one of Frac levels of [0,1), in units of 1/Frac
RngRandom(s) ==
    LET n == RngAdvance(s) IN [val |-> (n * Frac) \div RngModulus, rng |-> n]

\* rng.randint(lo, hi): an integer in lo .. hi-1
RngRandint(lo, hi, s) ==
    LET n == RngAdvance(s)
    IN [val |-> lo + (n * (hi - lo)) \div RngModulus, rng |-> n]

\* rng.random(n): n draws in order
RECURSIVE RngRandomVec(_, _)
RngRandomVec(n, s) ==
    IF n = 0 THEN [val |-> << >>, rng |-> s]
    ELSE LET d == RngRandom(s)
             r == RngRandomVec(n - 1, d.rng)
         IN [val |-> <<d.val>> \o r.val, rng |-> r.rng]

\* rng.random((rows, cols)): rows * cols draws, row by row
RECURSIVE RngRandomGrid(_, _, _)
RngRandomGrid(rows, cols, s) ==
    IF rows = 0 THEN [val |-> << >>, rng |-> s]
    ELSE LET d == RngRandomVec(cols, s)
             r == RngRandomGrid(rows - 1, cols, d.rng)
         IN [val |-> <<d.val>> \o r.val, rng |-> r.rng]

\* ------------------------------------------------------------------- grids
\* A grid is a sequence of rows; a[y, x] of the source is At(a, y, x).
Rows(a) == Len(a)
Cols(a) == IF Len(a) = 0 THEN 0 ELSE Len(a[1])
At(a, y, x) == a[y + 1][x + 1]
MakeGrid(rows, cols, F(_, _)) ==
    [r \in 1..rows |-> [c \in 1..cols |-> F(r - 1, c - 1)]]
Zeros(rows, cols) == MakeGrid(rows, cols, LAMBDA y, x : 0)

RECURSIVE SumSeq(_)
SumSeq(s) == IF s = << >> THEN 0 ELSE Head(s) + SumSeq(Tail(s))
RECURSIVE GridSum(_)
GridSum(a) == IF a = << >> THEN 0 ELSE SumSeq(Head(a)) + GridSum(Tail(a))

\* RollRight moving nothing
RollRightStill(a) == a

\* np.roll(a, 1, axis=1): every value moves one column to the right, the last
\* column wraps to column 0
RollRight(a) ==
    MakeGrid(Rows(a), Cols(a),
             LAMBDA y, x : At(a, y, (x - 1) % Cols(a)))

\* ------------------------------------------------------------- class Core
\* Core.__init__
NewCore(x, y) ==
    [x |-> x, y |-> y, temp_exposure_count |-> 0, bloomed |-> FALSE,
     refractory_countdown |-> 0, total_blooms |-> 0, last_bloom_tick |-> -1]

\* InRange with the bounds excluded
InRangeExclusive(cfg, temperature) ==
    cfg.T_MIN < temperature /\ temperature < cfg.T_MAX

\* config.T_MIN <= temperature <= config.T_MAX
InRange(cfg, temperature) ==
    cfg.T_MIN <= temperature /\ temperature <= cfg.T_MAX

\* EnoughCatalyst with the threshold itself excluded
EnoughCatalystStrict(cfg, catalyst) ==
    catalyst * Frac > cfg.C_THRESH * CatalystUnit

\* catalyst >= config.C_THRESH (catalyst in units of 1/CatalystUnit)
EnoughCatalyst(cfg, catalyst) ==
    catalyst * Frac >= cfg.C_THRESH * CatalystUnit

\* The refractory branch of Core.update: the countdown is decremented and the
\* method returns False; no other field is assigned.
UpdateRefractory(c) ==
    [core |-> [c EXCEPT !.refractory_countdown = @ - 1], ret |-> FALSE]

\* ExposureAfter without the reset on an out-of-range temperature
ExposureAfterNoReset(cfg, c, temperature) ==
    IF InRange(cfg, temperature) THEN c.temp_exposure_count + 1
    ELSE c.temp_exposure_count

\* The exposure counter after the temperature test of Core.update
ExposureAfter(cfg, c, temperature) ==
    IF InRange(cfg, temperature) THEN c.temp_exposure_count + 1 ELSE 0

\* BloomCondition asking for more than TAU_TEMP exposures
BloomConditionStrict(cfg, exposure, catalyst, emit_mode) ==
    /\ emit_mode
    /\ EnoughCatalyst(cfg, catalyst)
    /\ exposure > cfg.TAU_TEMP

\* The bloom condition of Core.update, on the updated exposure counter
BloomCondition(cfg, exposure, catalyst, emit_mode) ==
    /\ emit_mode
    /\ EnoughCatalyst(cfg, catalyst)
    /\ exposure >= cfg.TAU_TEMP

\* The branch of Core.update taken outside the refractory period
UpdateActive(cfg, c, tick, temperature, catalyst, emit_mode) ==
    LET exposure == ExposureAfter(cfg, c, temperature)
    IN IF BloomCondition(cfg, exposure, catalyst, emit_mode)
       THEN [core |-> [c EXCEPT !.bloomed = TRUE,
                                !.total_blooms = @ + 1,
                                !.last_bloom_tick = tick,
                                !.refractory_countdown = cfg.TAU_REFRACT,
                                !.temp_exposure_count = 0],
             ret |-> TRUE]
       ELSE [core |-> [c EXCEPT !.bloomed = FALSE,
                                !.temp_exposure_count = exposure],
             ret |-> FALSE]

\* CoreUpdate treating the last refractory update as an active one
CoreUpdateShortRefractory(cfg, c, tick, temperature, catalyst, emit_mode) ==
    IF c.refractory_countdown > 1
    THEN UpdateRefractory(c)
    ELSE UpdateActive(cfg, c, tick, temperature, catalyst, emit_mode)

\* Core.update(tick, temperature, catalyst, emit_mode): the core afterwards
\* and the value returned
CoreUpdate(cfg, c, tick, temperature, catalyst, emit_mode) ==
    IF c.refractory_countdown > 0
    THEN UpdateRefractory(c)
    ELSE UpdateActive(cfg, c, tick, temperature, catalyst, emit_mode)

\* ------------------------------------------- class KernelUniverseSimulation
\* initialize_cores: draw (x, y) until a position not yet taken comes up,
\* num_cores times.  "while True" has no exit but the break under
\* "(x, y) not in positions": once positions holds every pair randint can
\* produce, the call never returns (hangs), with the cores appended so far.
RECURSIVE InitializeCores(_, _, _, _, _)
InitializeCores(cfg, num, positions, cores, s) ==
    IF num <= 0 THEN [cores |-> cores, rng |-> s, hangs |-> FALSE]
    ELSE IF Cardinality(positions) >= cfg.GRID_SIZE * cfg.GRID_SIZE
    THEN [cores |-> cores, rng |-> s, hangs |-> TRUE]
    ELSE LET dx == RngRandint(0, cfg.GRID_SIZE, s)
             dy == RngRandint(0, cfg.GRID_SIZE, dx.rng)
             p  == <<dx.val, dy.val>>
         IN IF p \notin positions
            THEN InitializeCores(cfg, num - 1, positions \cup {p},
                                 Append(cores, NewCore(p[1], p[2])), dy.rng)
            ELSE InitializeCores(cfg, num, positions, cores, dy.rng)

\* InitialCatalyst without the factor 0.2: self.rng.random((N, N))
InitialCatalystFull(levels) ==
    MakeGrid(Rows(levels), Cols(levels),
             LAMBDA y, x : RoundDiv(At(levels, y, x) * CatalystUnit, Frac))

\* self.rng.random((N, N)) * 0.2, in catalyst units
InitialCatalyst(levels) ==
    MakeGrid(Rows(levels), Cols(levels),
             LAMBDA y, x : RoundDiv(At(levels, y, x) * CatalystUnit, Frac * 5))

\* The draws of reset(): temperature, catalyst_upper, core positions
ResetDraws(cfg, s) ==
    LET t == RngRandomGrid(cfg.GRID_SIZE, cfg.GRID_SIZE, s)
        u == RngRandomGrid(cfg.GRID_SIZE, cfg.GRID_SIZE, t.rng)
        k == InitializeCores(cfg, cfg.INITIAL_CORES, {}, << >>, u.rng)
    IN [temperature |-> t.val, catalyst |-> u.val, cores |-> k.cores,
        rng |-> k.rng, hangs |-> k.hangs]

\* reset() never returns: initialize_cores never does
ResetHangs(cfg, sim) == ResetDraws(cfg, sim.rng).hangs

\* reset(): every field but seed and rng is rebuilt; rng is drawn from, in the
\* order temperature, catalyst_upper, core positions, and is not re-seeded.
\* The statistics are cleared after initialize_cores, so not when it hangs.
SimReset(cfg, sim) ==
    LET d == ResetDraws(cfg, sim.rng)
    IN [seed |-> sim.seed, rng |-> d.rng, tick |-> 0,
        temperature |-> d.temperature,
        catalyst_upper |-> InitialCatalyst(d.catalyst),
        catalyst_lower |-> Zeros(cfg.GRID_SIZE, cfg.GRID_SIZE),
        cores |-> d.cores,
        total_blooms |-> IF d.hangs THEN sim.total_blooms ELSE 0,
        bloom_locations |-> IF d.hangs THEN sim.bloom_locations ELSE << >>]

\* __init__(seed): seed the stream, then reset(); the statistics do not exist
\* before reset() assigns them
SimNew(cfg, seed) ==
    SimReset(cfg, [seed |-> seed, rng |-> RngSeed(seed),
                   total_blooms |-> 0, bloom_locations |-> << >>])

\* shift_temperature(): roll right, then column 0 gets GRID_SIZE fresh draws.
\* The assignment to the column takes a vector of the column's length, or of
\* length 1 (broadcast to every row); any other length raises ValueError,
\* after the roll and the draws.
ShiftTemperature(cfg, temperature, s) ==
    LET rolled == RollRight(temperature)
        col    == RngRandomVec(cfg.GRID_SIZE, s)
        fits   == cfg.GRID_SIZE = Rows(rolled) \/ cfg.GRID_SIZE = 1
    IN [val |-> IF fits
                THEN MakeGrid(Rows(rolled), Cols(rolled),
                         LAMBDA y, x :
                            IF x = 0
                            THEN col.val[IF cfg.GRID_SIZE = 1 THEN 1 ELSE y + 1]
                            ELSE At(rolled, y, x))
                ELSE rolled,
        rng |-> col.rng,
        raised |-> ~fits]

\* Padded with a border of zeros instead of the wrapped values
PaddedNoWrap(a, i, j) ==
    IF i - 1 \in 0..(Rows(a) - 1) /\ j - 1 \in 0..(Cols(a) - 1)
    THEN At(a, i - 1, j - 1) ELSE 0

\* np.pad(input_array, 1, mode='wrap')[i, j]: the padded array's (i, j) is
\* the input's (i - 1, j - 1), indices taken modulo the input's shape
Padded(a, i, j) == At(a, (i - 1) % Rows(a), (j - 1) % Cols(a))

\* np.sum(window * kernel) for the window at (i, j), before the division by
\* the kernel's unit
WindowSum(a, kernel, i, j) ==
    LET side == Len(kernel)
        Term(n) == LET di == (n - 1) \div side
                       dj == (n - 1) % side
                   IN Padded(a, i + di, j + dj) * kernel[di + 1][dj + 1]
        terms == [n \in 1..(side * side) |-> Term(n)]
    IN SumSeq(terms)

\* apply_convolution(input_array, kernel): the output has the input's shape
\* and is filled for i, j < GRID_SIZE
ApplyConvolution(cfg, a, kernel) ==
    MakeGrid(Rows(a), Cols(a),
             LAMBDA i, j : IF i < cfg.GRID_SIZE /\ j < cfg.GRID_SIZE
                            THEN RoundDiv(WindowSum(a, kernel, i, j), Frac)
                            ELSE 0)

\* advect_right(array, alpha): (1 - alpha) * array + alpha * np.roll(array, 1)
AdvectRight(a, alpha) ==
    LET shifted == RollRight(a)
    IN MakeGrid(Rows(a), Cols(a),
                LAMBDA y, x : RoundDiv((Frac - alpha) * At(a, y, x)
                                       + alpha * At(shifted, y, x), Frac))

\* EMIT mode of step(): transfer = upper * EMIT_FRACTION moves to the lower layer
Emit(cfg, upper, lower) ==
    LET transfer == MakeGrid(Rows(upper), Cols(upper),
                       LAMBDA y, x : RoundDiv(At(upper, y, x) * cfg.EMIT_FRACTION, Frac))
    IN [upper |-> MakeGrid(Rows(upper), Cols(upper),
                     LAMBDA y, x : At(upper, y, x) - At(transfer, y, x)),
        lower |-> MakeGrid(Rows(lower), Cols(lower),
                     LAMBDA y, x : At(lower, y, x) + At(transfer, y, x))]

\* COLLECT mode of step(): the lower layer moves up, then diffusion, then
\* advection
Collect(cfg, upper, lower) ==
    LET merged == MakeGrid(Rows(upper), Cols(upper),
                     LAMBDA y, x : At(upper, y, x) + At(lower, y, x))
        spread == ApplyConvolution(cfg, merged, cfg.KERNEL_3x3)
    IN [upper |-> AdvectRight(spread, cfg.ADVECT_ALPHA),
        lower |-> Zeros(Rows(lower), Cols(lower))]

\* SpawnPosition stopping at the grid's edge instead of wrapping around it
SpawnPositionClamped(cfg, parent, d) ==
    IF parent + d < 0 THEN 0
    ELSE IF parent + d > cfg.GRID_SIZE - 1 THEN cfg.GRID_SIZE - 1
    ELSE parent + d

\* (parent_x + dx) % config.GRID_SIZE
SpawnPosition(cfg, parent, d) == (parent + d) % cfg.GRID_SIZE

\* spawn_new_cores(parent_x, parent_y, count): count cores appended, each at
\* the parent's position plus offsets drawn in -5 .. 5, modulo GRID_SIZE;
\* offsets are the (dx, dy) drawn, in order
RECURSIVE SpawnNewCores(_, _, _, _, _, _, _)
SpawnNewCores(cfg, parent_x, parent_y, count, cores, offsets, s) ==
    IF count <= 0 THEN [cores |-> cores, offsets |-> offsets, rng |-> s]
    ELSE LET dx == RngRandint(-5, 6, s)
             dy == RngRandint(-5, 6, dx.rng)
             new_x == SpawnPosition(cfg, parent_x, dx.val)
             new_y == SpawnPosition(cfg, parent_y, dy.val)
         IN SpawnNewCores(cfg, parent_x, parent_y, count - 1,
                          Append(cores, NewCore(new_x, new_y)),
                          Append(offsets, <<dx.val, dy.val>>), dy.rng)

\* LogBloom with the coordinates the other way round
LogBloomTransposed(locations, c, tick) == Append(locations, <<c.y, c.x, tick>>)

\* self.bloom_locations.append((x, y, self.tick))
LogBloom(locations, c, tick) == Append(locations, <<c.x, c.y, tick>>)

\* A core that is in its initial state when the loop reaches it blooms there
\* and then, whatever cell it is on: an emission tick, TAU_TEMP met by one
\* tick of exposure, and every cell in range with catalyst at the threshold
EveryCellBlooms(cfg, emit_mode, temperature, catalyst_upper) ==
    /\ emit_mode
    /\ cfg.TAU_TEMP <= 1
    /\ \A y \in 0..(Rows(temperature) - 1), x \in 0..(Cols(temperature) - 1) :
          /\ InRange(cfg, At(temperature, y, x))
          /\ EnoughCatalyst(cfg, At(catalyst_upper, y, x))

\* The core loop of step(): "for core in self.cores" visits index i while
\* i < len(self.cores), the length being read again at every iteration, so
\* cores appended by spawn_new_cores during the loop are visited too.
\* st carries what the loop changes; env what it reads.
\* The loop never ends (hangs) once it reaches an appended core while every
\* appended core blooms and appends in turn.  A collection that has outgrown
\* MaxCores is not followed further.
RECURSIVE UpdateCores(_, _, _, _)
UpdateCores(cfg, env, i, st) ==
    IF i > Len(st.cores) THEN st
    ELSE IF i > env.start /\ cfg.SPAWN_S > 0 /\ env.every_cell_blooms
    THEN [st EXCEPT !.hangs = TRUE]
    ELSE IF Len(st.cores) > MaxCores THEN st
    ELSE LET c   == st.cores[i]
             upd == CoreUpdate(cfg, c, env.tick,
                               At(env.temperature, c.y, c.x),
                               At(env.catalyst_upper, c.y, c.x),
                               env.emit_mode)
             cs  == [st.cores EXCEPT ![i] = upd.core]
             sp  == IF upd.ret /\ cfg.SPAWN_S > 0
                    THEN SpawnNewCores(cfg, c.x, c.y, cfg.SPAWN_S, cs, << >>, st.rng)
                    ELSE [cores |-> cs, offsets |-> << >>, rng |-> st.rng]
         IN UpdateCores(cfg, env, i + 1,
               [cores |-> sp.cores, rng |-> sp.rng,
                blooms_this_tick |-> st.blooms_this_tick + (IF upd.ret THEN 1 ELSE 0),
                total_blooms |-> st.total_blooms + (IF upd.ret THEN 1 ELSE 0),
                bloom_locations |->
                    IF upd.ret THEN LogBloom(st.bloom_locations, c, env.tick)
                    ELSE st.bloom_locations,
                calls |-> Append(st.calls, i),
                bloomed |-> IF upd.ret THEN st.bloomed \cup {i} ELSE st.bloomed,
                spawned |-> st.spawned \o
                    [k \in 1..Len(sp.offsets) |->
                        [parent |-> i, dx |-> sp.offsets[k][1],
                         dy |-> sp.offsets[k][2]]],
                hangs |-> FALSE])

\* EmitMode with the parity swapped
EmitModeOdd(tick) == tick % 2 = 1

\* self.tick % 2 == 0
EmitMode(tick) == tick % 2 = 0

\* The value step() has returned when no step has been made yet
NoStats == [tick |-> 0, emit_mode |-> TRUE, blooms_this_tick |-> 0,
            total_blooms |-> 0, total_catalyst |-> 0]

\* step() from shift_temperature()'s outcome temp on: the simulation
\* afterwards, the statistics returned, and what the
\* call did (the transform applied, the indices update() was called on in
\* order, the indices whose update() returned True, the offsets drawn for
\* the cores spawned).  raised: shift_temperature raised and step() ended
\* there; hangs: the core loop never ends and step() never returns.
SimStepFrom(cfg, sim, temp) ==
    LET tick      == sim.tick + 1
        emit_mode == EmitMode(tick)
        cat       == IF emit_mode
                     THEN Emit(cfg, sim.catalyst_upper, sim.catalyst_lower)
                     ELSE Collect(cfg, sim.catalyst_upper, sim.catalyst_lower)
        env       == [tick |-> tick, emit_mode |-> emit_mode,
                      temperature |-> temp.val, catalyst_upper |-> cat.upper,
                      start |-> Len(sim.cores),
                      every_cell_blooms |->
                          EveryCellBlooms(cfg, emit_mode, temp.val, cat.upper)]
        done      == UpdateCores(cfg, env, 1,
                        [cores |-> sim.cores, rng |-> temp.rng,
                         blooms_this_tick |-> 0,
                         total_blooms |-> sim.total_blooms,
                         bloom_locations |-> sim.bloom_locations,
                         calls |-> << >>, bloomed |-> {}, spawned |-> << >>,
                         hangs |-> FALSE])
        total_catalyst == GridSum(cat.upper) + GridSum(cat.lower)
    IN IF temp.raised
       THEN [sim |-> [sim EXCEPT !.tick = tick, !.temperature = temp.val,
                                 !.rng = temp.rng],
             stats |-> NoStats, applied |-> "none", calls |-> << >>,
             bloomed |-> {}, spawned |-> << >>,
             raised |-> TRUE, hangs |-> FALSE]
       ELSE [sim |-> [seed |-> sim.seed, rng |-> done.rng, tick |-> tick,
                      temperature |-> temp.val,
                      catalyst_upper |-> cat.upper, catalyst_lower |-> cat.lower,
                      cores |-> done.cores, total_blooms |-> done.total_blooms,
                      bloom_locations |-> done.bloom_locations],
             stats |-> [tick |-> tick, emit_mode |-> emit_mode,
                        blooms_this_tick |-> done.blooms_this_tick,
                        total_blooms |-> done.total_blooms,
                        total_catalyst |-> total_catalyst],
             applied |-> IF emit_mode THEN "emit" ELSE "collect",
             calls |-> done.calls,
             bloomed |-> done.bloomed,
             spawned |-> done.spawned,
             raised |-> FALSE, hangs |-> done.hangs]

\* step()
SimStep(cfg, sim) ==
    SimStepFrom(cfg, sim, ShiftTemperature(cfg, sim.temperature, sim.rng))

\* sum(catalyst_upper) + sum(catalyst_lower)
TotalCatalyst(s) == GridSum(s.catalyst_upper) + GridSum(s.catalyst_lower)

\* set_parameter(param_name, value): hasattr(config, param_name) decides; the
\* configuration afterwards and the value returned
SimSetParameter(cfg, param_name, value) ==
    IF param_name \in DOMAIN cfg
    THEN [config |-> [cfg EXCEPT ![param_name] = value], ret |-> TRUE]
    ELSE [config |-> cfg, ret |-> FALSE]

\* __init__(seed) never returns
NewHangs(cfg, seed) == ResetDraws(cfg, RngSeed(seed)).hangs

\* ------------------------------------------------------------------- state
VARIABLES
    config,        \* the module-level configuration (config.py)
    sim,           \* a KernelUniverseSimulation
    stats,         \* what sim's last step() returned
    sim2,          \* a second KernelUniverseSimulation constructed with sim's seed
    stats2,        \* what sim2's last step() returned
    core,          \* a Core driven directly through update(), as the tests do
    \* history
    lastOp,        \* the operation that led to this state
    steps,         \* step() calls on sim since its construction or last reset
    resets,        \* reset() calls on sim since its construction
    initial_total, \* sim's catalyst total right after construction or reset
    startCores,    \* len(sim.cores) when sim's last step() began
    prevSim,       \* sim when its last step() or reset() began
    spawned,       \* the cores sim's last step() spawned, in order: the index
                   \* of the parent and the offsets drawn
    calls,         \* indices of sim.cores that step() called update() on
    bloomedNow,    \* indices of sim.cores whose update() returned True in it
    applied,       \* the catalyst transform sim's last step() applied
    prevMode,      \* the transform sim's step before the last one applied
    log,           \* what sim's step() calls returned since its construction
                   \* or last reset, in order
    firstLog,      \* the same for the run between construction and first reset
    coreArgs,      \* arguments of the last update() on core
    corePrev,      \* core before that update()
    coreRet,       \* what that update() returned
    coreRun,       \* updates of core, up to the last, that were outside the
                   \* refractory period with the temperature in range, in a row
    coreRunNoBloom, \* the same, counted from the last bloom
    coreSince,     \* updates of core after its last bloom (capped)
    coreGap,       \* updates of core between its last two blooms (capped)
    builtSize,     \* config.GRID_SIZE when sim was constructed
    prevConfig,    \* config when the last set_parameter() began
    setCall,       \* the last set_parameter(): its arguments, what it returned
    sets,          \* set_parameter() calls so far
    \* the server (server.py)
    paused,        \* the global paused
    step_rate,     \* 1 / step_interval
    active_connections, \* the WebSockets of the global active_connections
    gone,          \* those of them whose client has gone away, the handler
                   \* not having seen the disconnect yet
    cache,         \* what Redis holds under REDIS_STATE_KEY: no state or one
    loopAlive,     \* the task running simulation_loop() has not ended
    \* history
    lastControl,   \* the control request just handled, if one was
    response,      \* the status it was answered with
    snapshot       \* what the GET /snapshot just handled returned, and
                   \* sim.tick then

simVars == <<sim, stats, lastOp, steps, resets, initial_total, startCores,
             prevSim, spawned, calls, bloomedNow, applied, prevMode, log,
             firstLog>>
sim2Vars == <<sim2, stats2>>
coreVars == <<core, coreArgs, corePrev, coreRet, coreRun, coreRunNoBloom,
              coreSince, coreGap>>
paramVars == <<builtSize, prevConfig, setCall, sets>>
serverVars == <<paused, step_rate, active_connections, gone, cache, loopAlive,
                lastControl, response, snapshot>>
vars == <<config, simVars, sim2Vars, coreVars, paramVars, serverVars>>

Seeds == 0..MaxSeed

\* A SimulationControl with every field left out
NoControl == [paused |-> << >>, reset |-> FALSE, step_rate |-> << >>,
              parameters |-> << >>]
NoSnapshot == [tick |-> 0, engine_tick |-> 0]
NoCall == [name |-> "", value |-> 0, ret |-> FALSE]
NoArgs == [tick |-> 0, temperature |-> 0, catalyst |-> 0, emit_mode |-> FALSE]

\* Construction: config as loaded, two simulations built from one seed, and a
\* Core(0, 0) as the tests build it
InitFrom(configs, seeds) ==
    /\ config \in configs
    /\ \E seed \in seeds : \E s \in {SimNew(config, seed)} :
          /\ sim = s
          /\ sim2 = s
          /\ lastOp = IF NewHangs(config, seed) THEN "init_hangs" ELSE "init"
    /\ stats = NoStats
    /\ stats2 = NoStats
    /\ core = NewCore(0, 0)
    /\ steps = 0
    /\ resets = 0
    /\ initial_total = TotalCatalyst(sim)
    /\ startCores = Len(sim.cores)
    /\ prevSim = sim
    /\ spawned = << >>
    /\ calls = << >>
    /\ bloomedNow = {}
    /\ applied = "none"
    /\ prevMode = "none"
    /\ log = << >>
    /\ firstLog = << >>
    /\ coreArgs = NoArgs
    /\ corePrev = core
    /\ coreRet = FALSE
    /\ coreRun = 0
    /\ coreRunNoBloom = 0
    /\ coreSince = 0
    /\ coreGap = 0
    /\ builtSize = config.GRID_SIZE
    /\ prevConfig = config
    /\ setCall = NoCall
    /\ sets = 0
    /\ paused = FALSE
    /\ step_rate = 10
    /\ active_connections = << >>
    /\ gone = {}
    /\ cache = << >>
    /\ loopAlive = TRUE
    /\ lastControl = NoControl
    /\ response = 0
    /\ snapshot = NoSnapshot

InitWith(seeds) ==
    InitFrom({DefaultConfig(ct) : ct \in C_THRESH_Values}, seeds)

\* A call that never returns leaves the process inside it
Running == lastOp \notin {"init_hangs", "reset_hangs", "step_hangs"}

\* A call of sim.step() with the outcome r: it returns its statistics, or
\* raises, or never returns
StepWith(r) ==
    /\ Len(r.sim.cores) <= MaxCores
    /\ sim' = r.sim
    /\ calls' = r.calls
    /\ bloomedNow' = r.bloomed
    /\ spawned' = r.spawned
    /\ applied' = r.applied
    /\ IF r.raised \/ r.hangs
       THEN /\ lastOp' = IF r.hangs THEN "step_hangs" ELSE "step_raised"
            /\ UNCHANGED <<stats, log, firstLog>>
       ELSE /\ lastOp' = "step"
            /\ stats' = r.stats
            /\ log' = Append(log, r.stats)
            /\ firstLog' = IF resets = 0 THEN Append(firstLog, r.stats)
                           ELSE firstLog
    /\ prevMode' = applied
    /\ startCores' = Len(sim.cores)
    /\ prevSim' = sim
    /\ steps' = steps + 1
    /\ UNCHANGED <<resets, initial_total>>

\* sim.step()
Step ==
    /\ Running
    /\ sim.tick < MaxTick
    /\ \E r \in {SimStep(config, sim)} : StepWith(r)
    /\ UNCHANGED <<config, sim2Vars, coreVars, paramVars, serverVars>>

\* A call of sim.reset()
ResetCall ==
    /\ sim' = SimReset(config, sim)
    /\ resets' = resets + 1
    /\ steps' = 0
    /\ initial_total' = TotalCatalyst(sim')
    /\ startCores' = Len(sim'.cores)
    /\ prevSim' = sim
    /\ spawned' = << >>
    /\ calls' = << >>
    /\ bloomedNow' = {}
    /\ applied' = "none"
    /\ prevMode' = "none"
    /\ log' = << >>
    /\ UNCHANGED <<stats, firstLog>>

\* sim.reset(): it returns, or never does
Reset ==
    /\ Running
    /\ resets < MaxResets
    /\ ResetCall
    /\ lastOp' = IF ResetHangs(config, sim) THEN "reset_hangs" ELSE "reset"
    /\ UNCHANGED <<config, sim2Vars, coreVars, paramVars, serverVars>>

\* Step2 drawing from the first simulation's stream instead of its own
Step2SharedStream ==
    /\ sim2.tick < sim.tick
    /\ \E r \in {SimStep(config, [sim2 EXCEPT !.rng = sim.rng])} :
          /\ sim2' = r.sim
          /\ stats2' = r.stats
    /\ UNCHANGED <<config, simVars, coreVars, paramVars, serverVars>>

\* sim2.step(), the second simulation catching up with the first
Step2 ==
    /\ sim2.tick < sim.tick
    /\ \E r \in {SimStep(config, sim2)} :
          /\ sim2' = r.sim
          /\ stats2' = r.stats
    /\ UNCHANGED <<config, simVars, coreVars, paramVars, serverVars>>

Init == InitWith(Seeds)
Next == Step \/ Reset
Spec == Init /\ [][Next]_vars

NextPair == Step \/ Step2
SpecPair == Init /\ [][NextPair]_vars

\* ------------------------------------------- a Core driven through update()
\* The arguments tried: two ticks, temperatures on both sides of
\* each end of [T_MIN, T_MAX], catalyst one unit below C_THRESH and at it,
\* both modes.
CoreTicks == {MaxTick - 1, MaxTick}
CoreTemperatures == {T_MIN - 1, T_MIN, T_MAX, T_MAX + 1}
CoreCatalysts ==
    LET thresh == (config.C_THRESH * CatalystUnit) \div Frac
    IN {thresh - 1, thresh}

\* core.update(tick, temperature, catalyst, emit_mode)
UpdateCore ==
    \E tick \in CoreTicks, temperature \in CoreTemperatures,
       catalyst \in CoreCatalysts, emit_mode \in BOOLEAN :
       \E r \in {CoreUpdate(config, core, tick, temperature, catalyst, emit_mode)} :
          /\ r.core.temp_exposure_count <= MaxExposure
          /\ r.core.total_blooms <= MaxCoreBlooms
          /\ core' = r.core
          /\ coreRet' = r.ret
          /\ corePrev' = core
          /\ coreArgs' = [tick |-> tick, temperature |-> temperature,
                          catalyst |-> catalyst, emit_mode |-> emit_mode]
          /\ coreRun' = IF core.refractory_countdown = 0
                           /\ InRange(config, temperature)
                        THEN coreRun + 1 ELSE 0
          /\ coreRunNoBloom' = IF core.refractory_countdown = 0
                                  /\ InRange(config, temperature) /\ ~r.ret
                               THEN coreRunNoBloom + 1 ELSE 0
          /\ coreSince' = IF r.ret THEN 0
                          ELSE IF coreSince <= config.TAU_REFRACT
                               THEN coreSince + 1 ELSE coreSince
          /\ coreGap' = IF r.ret THEN coreSince ELSE coreGap
          /\ lastOp' = "update"
          /\ UNCHANGED <<config, sim, stats, steps, resets, initial_total,
                         startCores, prevSim, spawned, calls, bloomedNow,
                         applied, prevMode, log, firstLog, sim2Vars,
                         paramVars, serverVars>>

InitCore == InitWith({RNG_SEED})
NextCore == UpdateCore
SpecCore == InitCore /\ [][NextCore]_vars

\* ------------------------------------------ set_parameter between the calls
\* A configuration under which every cell lets a core bloom on every
\* emission tick: any temperature in range, no catalyst needed, one tick of
\* exposure enough
EagerConfig ==
    [DefaultConfig(0) EXCEPT !.T_MIN = 0, !.T_MAX = Frac, !.TAU_TEMP = 1]
\* The default grid with one cell only
OneCellConfig == [DefaultConfig(C_THRESH_Default) EXCEPT !.GRID_SIZE = 1]
ParamConfigs ==
    {DefaultConfig(ct) : ct \in C_THRESH_Values}
        \cup {EagerConfig, OneCellConfig}
ParamSeeds == 0..MaxParamSeed

\* The calls of set_parameter tried: another grid size, more initial cores
\* than the grid has cells, no spawning, a name config holds that is no
\* configuration value, and a name config does not hold
ParamInputs ==
    {<<"GRID_SIZE", GRID_SIZE + 1>>, <<"GRID_SIZE", 1>>,
     <<"INITIAL_CORES", GRID_SIZE * GRID_SIZE + 1>>, <<"SPAWN_S", 0>>,
     <<"np", 0>>, <<"NO_SUCH_PARAMETER", 0>>}

\* sim.set_parameter(param_name, value)
SetParameter ==
    /\ Running
    /\ sets < MaxSets
    /\ \E in \in ParamInputs :
          \E r \in {SimSetParameter(config, in[1], in[2])} :
             /\ config' = r.config
             /\ setCall' = [name |-> in[1], value |-> in[2], ret |-> r.ret]
    /\ prevConfig' = config
    /\ prevSim' = sim
    /\ sets' = sets + 1
    /\ lastOp' = "set_parameter"
    /\ UNCHANGED <<sim, stats, steps, resets, initial_total, startCores,
                   spawned, calls, bloomedNow, applied, prevMode, log,
                   firstLog, sim2Vars, coreVars, builtSize, serverVars>>

InitParam == InitFrom(ParamConfigs, ParamSeeds)
NextParam == Step \/ Reset \/ SetParameter
SpecParam == InitParam /\ [][NextParam]_vars

\* ------------------------------------------------ the end-to-end example
\* A grid of size 10 with one initial core; before every step the example
\* puts, at that core's cell, a temperature inside [T_MIN, T_MAX] and, on
\* emission ticks, the least catalyst that the emission leaves at C_THRESH.
ExampleGridSize == 10
ExampleSeeds == 0..MaxExampleSeed
ExampleConfig ==
    [DefaultConfig(C_THRESH_Default) EXCEPT !.GRID_SIZE = ExampleGridSize,
                                            !.INITIAL_CORES = 1]
SetAt(a, y, x, v) == [a EXCEPT ![y + 1][x + 1] = v]
ForcedTemperature(cfg) == cfg.T_MIN
ForcedCatalyst(cfg) ==
    (cfg.C_THRESH * CatalystUnit) \div (Frac - cfg.EMIT_FRACTION)

\* sim.step() with the example's values in force at the initial core's cell
ForcedStep ==
    /\ Running
    /\ sim.tick < 2 * config.TAU_TEMP
    /\ LET x == sim.cores[1].x
           y == sim.cores[1].y
           fed == IF EmitMode(sim.tick + 1)
                  THEN [sim EXCEPT !.catalyst_upper =
                                      SetAt(@, y, x, ForcedCatalyst(config))]
                  ELSE sim
           temp == ShiftTemperature(config, sim.temperature, sim.rng)
       IN \E r \in {SimStepFrom(config, fed,
                        [temp EXCEPT !.val =
                            SetAt(@, y, x, ForcedTemperature(config))])} :
             StepWith(r)
    /\ UNCHANGED <<config, sim2Vars, coreVars, paramVars, serverVars>>

InitExample == InitFrom({ExampleConfig}, ExampleSeeds)
NextExample == ForcedStep
SpecExample == InitExample /\ [][NextExample]_vars

\* ------------------------------------------------------ the server (server.py)
\* simulation.get_state(), but for the wall-clock runtime
GetState(s) ==
    [tick |-> s.tick, temperature |-> s.temperature,
     catalyst_upper |-> s.catalyst_upper, catalyst_lower |-> s.catalyst_lower,
     cores |-> s.cores, total_blooms |-> s.total_blooms,
     bloom_locations |-> s.bloom_locations]

\* The JSON text broadcast_state() builds from get_state(): the keys it
\* copies, bloom_locations not among them (and but for the runtime)
BroadcastJson(s) ==
    [tick |-> GetState(s).tick, temperature |-> GetState(s).temperature,
     catalyst_upper |-> GetState(s).catalyst_upper,
     catalyst_lower |-> GetState(s).catalyst_lower,
     cores |-> GetState(s).cores, total_blooms |-> GetState(s).total_blooms]

\* The WebSocket clients
Connections == {"client"}
Connected == {active_connections[k] : k \in 1..Len(active_connections)}

\* MayStep whatever paused is
MayStepAlways(p) == TRUE

\* "if not paused" of simulation_loop()
MayStep(p) == ~p

\* The loop's task is alive and a step is due: `not paused`, with the step
\* interval elapsed
LoopStepDue ==
    /\ Running
    /\ loopAlive
    /\ MayStep(paused)
    /\ sim.tick < MaxServerTick

\* simulation_loop(), when a step is due: simulation.step(); an exception
\* ends the task
LoopStep ==
    /\ LoopStepDue
    /\ \E r \in {SimStep(config, sim)} :
          /\ StepWith(r)
          /\ loopAlive' = ~r.raised
    /\ snapshot' = NoSnapshot
    /\ lastControl' = NoControl
    /\ response' = 0
    /\ UNCHANGED <<config, sim2Vars, coreVars, paramVars, paused, step_rate,
                   active_connections, gone, cache>>

\* simulation_loop(), when a broadcast is due: broadcast_state() returns at
\* once without connections; else it stores the state in Redis and sends it
\* on every connection.  A send on a connection whose client has gone is
\* dropped or raises, and the exception ends the task.
LoopBroadcast ==
    /\ Running
    /\ loopAlive
    /\ IF active_connections = << >>
       THEN UNCHANGED <<cache, loopAlive>>
       ELSE /\ cache' = <<BroadcastJson(sim)>>
            /\ loopAlive' \in IF Connected \cap gone = {} THEN {TRUE}
                               ELSE {TRUE, FALSE}
    /\ lastOp' = "broadcast"
    /\ snapshot' = NoSnapshot
    /\ lastControl' = NoControl
    /\ response' = 0
    /\ UNCHANGED <<config, sim, stats, steps, resets, initial_total,
                   startCores, prevSim, spawned, calls, bloomedNow, applied,
                   prevMode, log, firstLog, sim2Vars, coreVars, paramVars,
                   paused, step_rate, active_connections, gone>>

\* websocket_endpoint(): accept, join active_connections, send the state
Connect ==
    /\ Running
    /\ \E w \in Connections \ Connected :
          active_connections' = Append(active_connections, w)
    /\ lastOp' = "connect"
    /\ snapshot' = NoSnapshot
    /\ lastControl' = NoControl
    /\ response' = 0
    /\ UNCHANGED <<config, sim, stats, steps, resets, initial_total,
                   startCores, prevSim, spawned, calls, bloomedNow, applied,
                   prevMode, log, firstLog, sim2Vars, coreVars, paramVars,
                   paused, step_rate, gone, cache, loopAlive>>

\* A client goes away
ClientGone ==
    /\ Running
    /\ \E w \in Connected \ gone : gone' = gone \cup {w}
    /\ lastOp' = "client_gone"
    /\ snapshot' = NoSnapshot
    /\ lastControl' = NoControl
    /\ response' = 0
    /\ UNCHANGED <<config, sim, stats, steps, resets, initial_total,
                   startCores, prevSim, spawned, calls, bloomedNow, applied,
                   prevMode, log, firstLog, sim2Vars, coreVars, paramVars,
                   paused, step_rate, active_connections, cache, loopAlive>>

\* websocket_endpoint(): receive_text() raises WebSocketDisconnect and the
\* handler leaves active_connections
Disconnect ==
    /\ Running
    /\ \E w \in Connected \cap gone :
          /\ active_connections' =
                SelectSeq(active_connections, LAMBDA v : v # w)
          /\ gone' = gone \ {w}
    /\ lastOp' = "disconnect"
    /\ snapshot' = NoSnapshot
    /\ lastControl' = NoControl
    /\ response' = 0
    /\ UNCHANGED <<config, sim, stats, steps, resets, initial_total,
                   startCores, prevSim, spawned, calls, bloomedNow, applied,
                   prevMode, log, firstLog, sim2Vars, coreVars, paramVars,
                   paused, step_rate, cache, loopAlive>>

\* get_snapshot(): the state Redis holds if it holds one, else
\* simulation.get_state()
GetSnapshot ==
    /\ Running
    /\ snapshot' = [tick |-> IF cache # << >> THEN cache[1].tick
                             ELSE GetState(sim).tick,
                    engine_tick |-> sim.tick]
    /\ lastOp' = "snapshot"
    /\ lastControl' = NoControl
    /\ response' = 0
    /\ UNCHANGED <<config, sim, stats, steps, resets, initial_total,
                   startCores, prevSim, spawned, calls, bloomedNow, applied,
                   prevMode, log, firstLog, sim2Vars, coreVars, paramVars,
                   paused, step_rate, active_connections, gone, cache,
                   loopAlive>>

\* The loop over control.parameters: set_parameter one by one, stopping at
\* the first that returns False
RECURSIVE SetParameters(_, _)
SetParameters(cfg, parameters) ==
    IF parameters = << >> THEN [config |-> cfg, ok |-> TRUE]
    ELSE LET r == SimSetParameter(cfg, Head(parameters)[1], Head(parameters)[2])
         IN IF r.ret THEN SetParameters(r.config, Tail(parameters))
            ELSE [config |-> r.config, ok |-> FALSE]

\* The control requests tried: pause, resume, reset, pause with reset, a
\* step rate, a step rate of 0, a known parameter, and a request with every
\* field given whose second parameter is unknown
ControlInputs ==
    {[NoControl EXCEPT !.paused = <<TRUE>>],
     [NoControl EXCEPT !.paused = <<FALSE>>],
     [NoControl EXCEPT !.reset = TRUE],
     [NoControl EXCEPT !.paused = <<TRUE>>, !.reset = TRUE],
     [NoControl EXCEPT !.step_rate = <<20>>],
     [NoControl EXCEPT !.step_rate = <<0>>],
     [NoControl EXCEPT !.parameters = << <<"SPAWN_S", 0>> >>],
     [paused |-> <<TRUE>>, reset |-> TRUE, step_rate |-> <<20>>,
      parameters |-> << <<"SPAWN_S", 0>>, <<"NO_SUCH_PARAMETER", 0>> >>]}

\* control_simulation(control): paused, then reset, then step_rate, then
\* the parameters; HTTP 400 at the first unknown parameter
Control ==
    /\ Running
    /\ \E c \in ControlInputs :
          /\ c.reset => resets < MaxResets
          /\ lastControl' = c
          /\ paused' = IF c.paused # << >> THEN c.paused[1] ELSE paused
          /\ IF c.reset THEN ResetCall
             ELSE UNCHANGED <<sim, stats, steps, resets, initial_total,
                              startCores, prevSim, spawned, calls, bloomedNow,
                              applied, prevMode, log, firstLog>>
          /\ IF c.reset /\ ResetHangs(config, sim)
             THEN /\ lastOp' = "reset_hangs"
                  /\ response' = 0
                  /\ UNCHANGED <<config, step_rate>>
             ELSE /\ lastOp' = "control"
                  /\ step_rate' = IF c.step_rate # << >> /\ c.step_rate[1] > 0
                                  THEN c.step_rate[1] ELSE step_rate
                  /\ \E p \in {SetParameters(config, c.parameters)} :
                        /\ config' = p.config
                        /\ response' = IF p.ok THEN 200 ELSE 400
    /\ snapshot' = NoSnapshot
    /\ UNCHANGED <<sim2Vars, coreVars, paramVars, active_connections, gone,
                   cache, loopAlive>>

\* The module's simulation is constructed without a seed
InitServer == InitFrom({DefaultConfig(ct) : ct \in C_THRESH_Values}, {RNG_SEED})
NextServer ==
    \/ LoopStep
    \/ LoopBroadcast
    \/ Connect
    \/ ClientGone
    \/ Disconnect
    \/ GetSnapshot
    \/ Control
SpecServer == InitServer /\ [][NextServer]_vars

\* The loop task is scheduled again 0.01 s after every pass for as long as it
\* is alive, and each pass steps when a step is due and broadcasts when a
\* broadcast is due: a step or a broadcast that stays possible is taken.
\* The fairness of LoopStep is weak fairness written out, with LoopStepDue,
\* the guard of LoopStep, for its enabledness.
SpecServerFair ==
    /\ SpecServer
    /\ WF_vars(LoopBroadcast)
    /\ ([]<>(~LoopStepDue) \/ []<><<LoopStep>>_vars)

\* =================================================================== claims
Abs(n) == IF n < 0 THEN -n ELSE n
CoreIndices == 1..Len(sim.cores)

\* The rounding a run may accumulate: the convolution and the advection of a
\* collection tick each round every cell to the nearest unit (half a unit at
\* most per cell), the emission transfer moves whole units
CollectionTicks(tick) == (tick + 1) \div 2
RoundingTolerance(s) ==
    Rows(s.catalyst_upper) * Cols(s.catalyst_upper) * CollectionTicks(s.tick)

\* C1: after every step of any sequence of steps (and after construction and
\* reset themselves) sum(catalyst_upper) + sum(catalyst_lower) equals the
\* total right after construction or reset, up to the rounding accumulated;
\* the total_catalyst a step reports is that sum.
C1_CatalystConserved ==
    /\ Abs(TotalCatalyst(sim) - initial_total) <= RoundingTolerance(sim)
    /\ lastOp = "step" => stats.total_catalyst = TotalCatalyst(sim)

\* C1 witness: a run with catalyst in it has gone through emission and
\* collection ticks up to the last tick explored, with mass in both layers
C1_Witness ==
    /\ lastOp = "step"
    /\ sim.tick = MaxTick
    /\ initial_total > CatalystUnit \div 4
    /\ GridSum(sim.catalyst_lower) > 0
    /\ GridSum(sim.catalyst_upper) > 0

\* C2: the cores update() is called on in a step are exactly those present
\* when the step began, and every core spawned in the step is still in its
\* initial state when the step ends.
C2_SpawnedNotUpdated ==
    lastOp = "step" =>
        /\ calls = [i \in 1..startCores |-> i]
        /\ \A i \in CoreIndices :
              i > startCores =>
                 sim.cores[i] = NewCore(sim.cores[i].x, sim.cores[i].y)

\* C3: after any step a core has bloomed = TRUE exactly if its update()
\* returned True in that step.
C3_BloomedOnlyOnBloomTick ==
    lastOp = "step" =>
        \A i \in CoreIndices : sim.cores[i].bloomed <=> (i \in bloomedNow)

Min(a, b) == IF a < b THEN a ELSE b

\* The cores of a freshly built simulation: INITIAL_CORES of them, each as
\* Core.__init__ leaves it, at pairwise distinct positions
FreshCores(cores) ==
    /\ Len(cores) = config.INITIAL_CORES
    /\ \A i \in 1..Len(cores) : cores[i] = NewCore(cores[i].x, cores[i].y)
    /\ \A i, j \in 1..Len(cores) :
          i # j => <<cores[i].x, cores[i].y>> # <<cores[j].x, cores[j].y>>

\* C4: reset() returns the engine to the state of a freshly constructed
\* simulation with the same seed: tick 0, no blooms, empty bloom log,
\* INITIAL_CORES fresh cores at distinct positions, the stream restarted from
\* the seed, and so the k-th step after a reset returns what the k-th step
\* after construction returned.
C4_ResetRestoresConstruction ==
    resets > 0 =>
        /\ lastOp = "reset" =>
              /\ sim.tick = 0
              /\ sim.total_blooms = 0
              /\ sim.bloom_locations = << >>
              /\ FreshCores(sim.cores)
              /\ sim = SimNew(config, sim.seed)
        /\ \A k \in 1..Min(Len(log), Len(firstLog)) : log[k] = firstLog[k]

LastInRange ==
    config.T_MIN <= coreArgs.temperature /\ coreArgs.temperature <= config.T_MAX
\* The last update's catalyst was at least C_THRESH
LastEnough == coreArgs.catalyst * Frac >= config.C_THRESH * CatalystUnit

\* C6: a core with refractory_countdown 0 and exposure count TAU_TEMP - 1
\* that is updated with an in-range temperature, emit_mode true and catalyst
\* >= C_THRESH blooms on that update: True is returned, bloomed is true,
\* total_blooms is one more, last_bloom_tick is the tick passed in,
\* refractory_countdown is TAU_REFRACT and the exposure count is 0.
C6_BloomTrigger ==
    ( /\ lastOp = "update"
      /\ corePrev.refractory_countdown = 0
      /\ corePrev.temp_exposure_count = config.TAU_TEMP - 1
      /\ LastInRange /\ coreArgs.emit_mode /\ LastEnough )
    => /\ coreRet = TRUE
       /\ core.bloomed = TRUE
       /\ core.total_blooms = corePrev.total_blooms + 1
       /\ core.last_bloom_tick = coreArgs.tick
       /\ core.refractory_countdown = config.TAU_REFRACT
       /\ core.temp_exposure_count = 0

\* C6 witness: such an update has been made, at the lower end of the range,
\* by a core that had bloomed before
C6_Witness ==
    /\ lastOp = "update"
    /\ corePrev.refractory_countdown = 0
    /\ corePrev.temp_exposure_count = config.TAU_TEMP - 1
    /\ corePrev.total_blooms = 1
    /\ coreArgs.temperature = config.T_MIN
    /\ coreArgs.emit_mode /\ LastEnough
    /\ coreArgs.tick # corePrev.last_bloom_tick

\* C7: update() returns True only if the core was not in refractory,
\* emit_mode is true, catalyst >= C_THRESH, and the temperature was in range
\* on this update and on each of the TAU_TEMP - 1 updates before it, none of
\* them a refractory one (a step passes emit_mode = FALSE on odd ticks, so no
\* core blooms on a collection tick).
C7_BloomNeedsAll ==
    (lastOp = "update" /\ coreRet) =>
        /\ corePrev.refractory_countdown = 0
        /\ coreArgs.emit_mode
        /\ LastEnough
        /\ LastInRange
        /\ coreRun >= config.TAU_TEMP

\* C7 witness: a bloom returned on a run of exactly TAU_TEMP in-range updates
C7_Witness ==
    /\ lastOp = "update"
    /\ coreRet
    /\ coreRun = config.TAU_TEMP

\* C7 on the simulation (checked under Spec): step() passes emit_mode =
\* (tick even), so every logged bloom and every core's last bloom is on an
\* even tick.
NoBloomOnCollectionTick ==
    /\ \A k \in 1..Len(sim.bloom_locations) : sim.bloom_locations[k][3] % 2 = 0
    /\ \A i \in CoreIndices :
          sim.cores[i].last_bloom_tick # -1 => sim.cores[i].last_bloom_tick % 2 = 0
    /\ (lastOp = "step" /\ ~stats.emit_mode) => stats.blooms_this_tick = 0

\* C8: an update made while refractory_countdown > 0 returns False, does not
\* turn bloomed on, leaves the exposure count, total_blooms and
\* last_bloom_tick as they were and decrements refractory_countdown by
\* exactly 1, whatever its arguments; so between two blooms of a core lie at
\* least TAU_REFRACT updates.
C8_RefractorySilence ==
    /\ (lastOp = "update" /\ corePrev.refractory_countdown > 0) =>
          /\ coreRet = FALSE
          /\ core.bloomed => corePrev.bloomed
          /\ core.temp_exposure_count = corePrev.temp_exposure_count
          /\ core.total_blooms = corePrev.total_blooms
          /\ core.last_bloom_tick = corePrev.last_bloom_tick
          /\ core.refractory_countdown = corePrev.refractory_countdown - 1
          /\ core.x = corePrev.x /\ core.y = corePrev.y
    /\ core.total_blooms >= 2 => coreGap >= config.TAU_REFRACT

\* C8 witness: the last refractory update of a core that has bloomed, made
\* with everything a bloom needs
C8_Witness ==
    /\ lastOp = "update"
    /\ corePrev.refractory_countdown = 1
    /\ LastInRange /\ coreArgs.emit_mode /\ LastEnough
    /\ core.total_blooms = 1

C10_TickAndMode ==
    /\ sim.tick = steps
    /\ lastOp = "step" =>
          /\ stats.tick = sim.tick
          /\ stats.tick = Len(log)
          /\ stats.emit_mode = (sim.tick % 2 = 0)
          /\ applied = (IF sim.tick % 2 = 0 THEN "emit" ELSE "collect")
          /\ sim.tick = 1 => (~stats.emit_mode /\ applied = "collect")
          /\ prevMode # applied
          /\ \A k \in 1..Len(log) : log[k].tick = k
          /\ \A k \in 1..(Len(log) - 1) : log[k].emit_mode # log[k + 1].emit_mode

\* C10 witness: a step after a reset that followed earlier steps, on an
\* emission tick
C10_Witness ==
    /\ lastOp = "step"
    /\ resets > 0
    /\ Len(firstLog) > 2
    /\ stats.emit_mode
    /\ sim.tick = MaxTick

\* The cores a step appended, as indices of sim.cores
SpawnedIndices == (Len(prevSim.cores) + 1)..Len(sim.cores)

\* C11: a step keeps every core it found where and in the order it was and
\* appends, after them, exactly SPAWN_S cores for each bloom of the step:
\* SPAWN_S * blooms_this_tick cores in all, the ones spawned by the bloom of a
\* core at (x, y) at ((x + dx) mod N, (y + dy) mod N) for offsets dx, dy drawn
\* in -5 .. 5, so inside the grid.
C11_SpawnFanOut ==
    lastOp = "step" =>
        /\ Len(sim.cores) =
              Len(prevSim.cores) + config.SPAWN_S * stats.blooms_this_tick
        /\ Len(spawned) = config.SPAWN_S * stats.blooms_this_tick
        /\ \A i \in 1..Len(prevSim.cores) :
              /\ sim.cores[i].x = prevSim.cores[i].x
              /\ sim.cores[i].y = prevSim.cores[i].y
        /\ \A i \in bloomedNow :
              Cardinality({k \in 1..Len(spawned) : spawned[k].parent = i})
                 = config.SPAWN_S
        /\ \A k \in 1..Len(spawned) :
              LET child  == sim.cores[Len(prevSim.cores) + k]
                  parent == sim.cores[spawned[k].parent]
              IN /\ spawned[k].parent \in bloomedNow
                 /\ spawned[k].dx \in -5..5
                 /\ spawned[k].dy \in -5..5
                 /\ child.x = (parent.x + spawned[k].dx) % config.GRID_SIZE
                 /\ child.y = (parent.y + spawned[k].dy) % config.GRID_SIZE
                 /\ child.x \in 0..(config.GRID_SIZE - 1)
                 /\ child.y \in 0..(config.GRID_SIZE - 1)

\* C11 witness: a step in which a core bloomed and its spawn, drawn beyond the
\* grid's edge, wrapped around to a cell other than the edge's
C11_Witness ==
    /\ lastOp = "step"
    /\ stats.blooms_this_tick >= 1
    /\ Len(prevSim.cores) >= config.INITIAL_CORES
    /\ \E k \in 1..Len(spawned) :
          LET parent == sim.cores[spawned[k].parent]
              target == parent.x + spawned[k].dx
          IN /\ target \notin 0..(config.GRID_SIZE - 1)
             /\ sim.cores[Len(prevSim.cores) + k].x
                   # SpawnPositionClamped(config, parent.x, spawned[k].dx)

\* The bloom events the last step logged, as indices of sim.bloom_locations
LoggedNow == (Len(prevSim.bloom_locations) + 1)..Len(sim.bloom_locations)

\* C12: since construction or the last reset, the simulation's total_blooms
\* equals the length of its bloom log, the sum of the blooms_this_tick its
\* steps returned, and the sum of its cores' total_blooms; every event
\* (x, y, tick) a step logs is the position of a core whose update in that
\* step set last_bloom_tick to that tick, one event per such core; the log is
\* in non-decreasing tick order.
C12_BloomAccounting ==
    /\ sim.total_blooms = Len(sim.bloom_locations)
    /\ sim.total_blooms =
          SumSeq([k \in 1..Len(log) |-> log[k].blooms_this_tick])
    /\ sim.total_blooms =
          SumSeq([i \in CoreIndices |-> sim.cores[i].total_blooms])
    /\ \A k \in 1..(Len(sim.bloom_locations) - 1) :
          sim.bloom_locations[k][3] <= sim.bloom_locations[k + 1][3]
    /\ \A k \in 1..Len(sim.bloom_locations) :
          \E i \in CoreIndices :
             /\ sim.cores[i].x = sim.bloom_locations[k][1]
             /\ sim.cores[i].y = sim.bloom_locations[k][2]
             /\ sim.cores[i].total_blooms >= 1
             /\ sim.cores[i].last_bloom_tick >= sim.bloom_locations[k][3]
    /\ lastOp = "step" =>
          /\ Cardinality(LoggedNow) = Cardinality(bloomedNow)
          /\ stats.blooms_this_tick = Cardinality(bloomedNow)
          /\ \A k \in LoggedNow :
                \E i \in bloomedNow :
                   /\ sim.cores[i].x = sim.bloom_locations[k][1]
                   /\ sim.cores[i].y = sim.bloom_locations[k][2]
                   /\ sim.bloom_locations[k][3] = sim.tick
                   /\ sim.cores[i].last_bloom_tick = sim.tick
                   /\ prevSim.cores[i].last_bloom_tick < sim.tick

\* C12 witness: blooms logged on two different ticks, the last of them in the
\* step just made by a core off the grid's diagonal
C12_Witness ==
    /\ lastOp = "step"
    /\ sim.total_blooms >= 2
    /\ sim.bloom_locations[1][3] < sim.tick
    /\ \E k \in LoggedNow :
          sim.bloom_locations[k][1] # sim.bloom_locations[k][2]

\* The first emission tick at or after TAU_TEMP
FirstBloomTick == IF EmitMode(config.TAU_TEMP) THEN config.TAU_TEMP
                  ELSE config.TAU_TEMP + 1

C14_SetParameterContract ==
    lastOp = "set_parameter" =>
        /\ sim = prevSim
        /\ IF setCall.name \in ConfigParameters
           THEN /\ setCall.ret
                /\ config = [prevConfig EXCEPT ![setCall.name] = setCall.value]
           ELSE /\ ~setCall.ret
                /\ config = prevConfig

\* The three grids are n x n
GridsAre(n) ==
    \A a \in {sim.temperature, sim.catalyst_upper, sim.catalyst_lower} :
       /\ Rows(a) = n
       /\ \A r \in 1..Rows(a) : Len(a[r]) = n

\* C15: whatever set_parameter, step and reset calls were made, the
\* temperature grid and both catalyst grids are N x N for the N in force at
\* construction, and every core is at a position with 0 <= x, y < N.
C15_GridSizeImmutable ==
    Running =>
        /\ GridsAre(builtSize)
        /\ \A i \in CoreIndices :
              /\ sim.cores[i].x \in 0..(builtSize - 1)
              /\ sim.cores[i].y \in 0..(builtSize - 1)

\* C16: with a grid size N >= 1, construction and reset() return: no call of
\* either is left inside the placement of the initial cores for ever.
C16_ResetTerminates ==
    config.GRID_SIZE >= 1 => lastOp \notin {"init_hangs", "reset_hangs"}

\* C18: with TAU_TEMP >= 1 and SPAWN_S >= 0 every step() returns, one tick
\* later: no call is left inside the core loop for ever.
C18_StepTerminates ==
    (config.TAU_TEMP >= 1 /\ config.SPAWN_S >= 0) =>
        /\ lastOp # "step_hangs"
        /\ lastOp = "step" => sim.tick = prevSim.tick + 1

\* The cores of the last step that update() took through its active branch
\* without a bloom: their exposure count tells which temperature they read
ReadersNow ==
    {i \in 1..Len(prevSim.cores) :
        prevSim.cores[i].refractory_countdown = 0 /\ i \notin bloomedNow}

\* C17: a step scrolls the temperature grid exactly once, before its cores
\* read it: in the grid the step leaves, every column c in 1 .. N-1 holds the
\* values column c-1 held before the step, column 0 holds the next N draws
\* of the stream, each in [0, 1), the old last column is gone, and every core
\* counted its exposure on the temperature the scrolled grid has at its cell.
C17_TemperatureScroll ==
    lastOp = "step" =>
        LET old  == prevSim.temperature
            new  == sim.temperature
            N    == config.GRID_SIZE
            draw == RngRandomVec(N, prevSim.rng).val
        IN /\ Rows(new) = N /\ Cols(new) = N
           /\ \A y \in 0..(N - 1) :
                 /\ \A c \in 1..(N - 1) : At(new, y, c) = At(old, y, c - 1)
                 /\ At(new, y, 0) = draw[y + 1]
                 /\ At(new, y, 0) \in 0..(Frac - 1)
           /\ \A i \in ReadersNow :
                 sim.cores[i].temp_exposure_count =
                    IF InRange(config, At(new, sim.cores[i].y, sim.cores[i].x))
                    THEN prevSim.cores[i].temp_exposure_count + 1
                    ELSE 0

\* C17 witness: a step whose scroll moved a column onto one that differed
\* from it and brought a core's cell into range that was out of range before
C17_Witness ==
    /\ lastOp = "step"
    /\ sim.tick >= 2
    /\ \E y \in 0..(config.GRID_SIZE - 1) :
          At(prevSim.temperature, y, 0) # At(prevSim.temperature, y, 1)
    /\ \E i \in ReadersNow :
          /\ InRange(config, At(sim.temperature, sim.cores[i].y, sim.cores[i].x))
          /\ ~InRange(config, At(prevSim.temperature, sim.cores[i].y, sim.cores[i].x))
          /\ sim.cores[i].temp_exposure_count >= 1

\* C19: the state GET /snapshot returns has the tick the engine's counter
\* has at the time of the request, whatever steps, resets, connects and
\* disconnects came before.
C19_SnapshotIsCurrent ==
    lastOp = "snapshot" => snapshot.tick = snapshot.engine_tick

ThresholdUnits(cfg) == (cfg.C_THRESH * CatalystUnit) \div Frac

\* C21: under the default configuration every cell has upper + lower below
\* C_THRESH (0.2) in every reachable state, the catalyst a core reads on an
\* emission tick is below C_THRESH, and no core ever blooms: total_blooms
\* stays 0, the bloom log stays empty and the core collection keeps its
\* INITIAL_CORES cores after any number of steps and resets.
C21_DefaultNeverBlooms ==
    (config = DefaultConfig(C_THRESH_Default) /\ Running) =>
        /\ \A y \in 0..(Rows(sim.catalyst_upper) - 1),
              x \in 0..(Cols(sim.catalyst_upper) - 1) :
              /\ At(sim.catalyst_upper, y, x) + At(sim.catalyst_lower, y, x)
                    < ThresholdUnits(config)
              /\ ~EnoughCatalyst(config, At(sim.catalyst_upper, y, x))
        /\ sim.total_blooms = 0
        /\ sim.bloom_locations = << >>
        /\ stats.blooms_this_tick = 0
        /\ Len(sim.cores) = config.INITIAL_CORES
        /\ \A i \in 1..Len(sim.cores) :
              sim.cores[i].total_blooms = 0 /\ ~sim.cores[i].bloomed

\* An emission tick of the default configuration has just updated a core
\* whose temperature exposure had reached TAU_TEMP: only the catalyst kept it
\* from blooming
C21_Witness ==
    /\ config = DefaultConfig(C_THRESH_Default)
    /\ lastOp = "step"
    /\ EmitMode(sim.tick)
    /\ sim.tick >= 4
    /\ \E i \in 1..Len(sim.cores) :
          sim.cores[i].temp_exposure_count >= config.TAU_TEMP

\* ------------------------------------------------------------------- C22
\* The engine has moved on from tick n of its k-th run: a later tick, or a
\* reset through a control request
MovedOn(n, k) == sim.tick > n \/ resets > k

\* C22: the simulation loop never stops: whenever the server is not paused
\* the engine tick eventually increases (unless the server is paused
\* meanwhile), whatever subscribers connect, disconnect or fail while a
\* state broadcast is being sent to them.
C22_LoopNeverStops ==
    \A n \in 0..(MaxServerTick - 1), k \in 0..MaxResets :
       [](( ~paused /\ sim.tick = n /\ resets = k) =>
              <>(paused \/ MovedOn(n, k)))


\* ------------------------------------------------------------------- C23
\* C23: a control request rejected with "Unknown parameter" (HTTP 400) has
\* no effect: the paused flag, the step interval, the engine state (no reset
\* performed) and every configuration value are the same after the request
\* as before it, including the parameters listed before the unknown one.
C23_RejectedControlHasNoEffect ==
    [][(lastOp' = "control" /\ response' = 400) =>
          /\ paused' = paused
          /\ step_rate' = step_rate
          /\ sim' = sim
          /\ resets' = resets
          /\ config' = config]_vars
====
